---- MODULE Spec2Model ----
(***************************************************************************)
(* realor-map-app: the two Streamlit land-search apps.                     *)
(*   src/app.py         desktop version (rev11)                            *)
(*   src/app.mobile.py  mobile version  (rev8)                             *)
(*                                                                         *)
(* A behaviour is one browser session of one of the two apps over one CSV  *)
(* file.  Every step is one run of the Streamlit script (a script run is   *)
(* what a user interaction triggers), taken from its first line to the     *)
(* point where it stops (st.stop), ends, or dies of an uncaught exception. *)
(*                                                                         *)
(* Units.  Areas are integers counting 0.001 tsubo, square metres are      *)
(* whole m2, prices are whole man-yen, unit prices count 0.1 man-yen/tsubo *)
(* and distances are metres.  Coordinates are points on one meridian,      *)
(* given as metres along it: there haversine is R * |dlat|, the absolute   *)
(* difference.  Arithmetic is exact where pandas uses binary floats.       *)
(***************************************************************************)
EXTENDS Integers, Sequences, FiniteSets

VARIABLES
    app,                 \* "desktop" | "mobile": which script this session runs
    file,                \* the CSV file at CSV_PATH
    GOOGLE_API_KEY,      \* TRUE iff the environment holds a non-empty key
    status,              \* "init" | "stopped" | "crashed" | "done": how the last run ended
    msg,                 \* the st.error / st.warning / st.info text, or the exception
    last_input,          \* what triggered the last run: "none" | "run" | "confirm"
    address,             \* the text the last run read from st.text_input ("" if none)
    api_reply,           \* what the geocoding API replied in the last run ("none": no request)
    center,              \* (center_lat, center_lon) of the last run, None before geocoding
    radius,              \* radius / radius_km slider (metres)
    tsubo_min,           \* tsubo_min / min_t slider (tsubo)
    tsubo_max,           \* tsubo_max / max_t slider (tsubo)
    df,                  \* desktop: df after line 159; mobile: what load_data returned
    df_flt,              \* desktop: df_flt (line 188)
    shown,               \* TRUE iff the run handed a table to st.dataframe / st.data_editor
    pins,                \* the listing markers added to the map the run rendered
    flt,                 \* mobile: flt after the filter and sort (lines 184-189)
    table_df,            \* mobile: the rows given to st.data_editor (line 215)
    edited,              \* mobile: labels whose checkbox is checked in data_editor's return
    selected_row_index,  \* mobile: st.session_state["selected_row_index"]
    geocache             \* mobile: st.cache_data memo of geocode_address

vars == <<app, file, GOOGLE_API_KEY, status, msg, last_input, address, api_reply, center,
          radius, tsubo_min, tsubo_max, df, df_flt, shown, pins, flt, table_df, edited,
          selected_row_index, geocache>>

(***************************************************************************)
(* Bounds of the model.                                                    *)
(***************************************************************************)
\* Largest number of data rows of a CSV file.
MaxRows == 2

(***************************************************************************)
(* Values: a CSV cell or a pandas scalar.                                  *)
(*   num    a number                                                       *)
(*   comma  a number written with a thousands separator ("1,600")          *)
(*   text   text that is no number                                         *)
(*   nan    NaN: an empty cell or one of read_csv's NA words ("N/A")       *)
(*   inf    +infinity                                                      *)
(*   none   Python's None                                                  *)
(***************************************************************************)
Num(n) == [k |-> "num", v |-> n]
Comma(n) == [k |-> "comma", v |-> n]
Text == [k |-> "text", v |-> 0]
NaN == [k |-> "nan", v |-> 0]
Inf == [k |-> "inf", v |-> 0]
None == [k |-> "none", v |-> 0]

IsNum(x) == x.k = "num"

\* read_csv keeps a column numeric (float64, NaN for empty cells) unless one of
\* its cells is not a number; then the column is object and every non-empty
\* cell of it is a Python str.
IsObjectColumn(cells) == \E i \in 1..Len(cells) : cells[i].k \in {"text", "comma"}

\* Arithmetic between a str and a float raises TypeError.
RaisesOnArithmetic(cells) ==
    IsObjectColumn(cells) /\ \E i \in 1..Len(cells) : cells[i].k # "nan"

\* pd.to_numeric(col, errors="coerce")
to_numeric(x) == IF x.k = "num" THEN x ELSE NaN

\* pd.to_numeric(col.astype(str).str.replace(",", ""), errors="coerce")
to_numeric_no_commas(x) == IF x.k \in {"num", "comma"} THEN Num(x.v) ELSE NaN

Abs(n) == IF n < 0 THEN -n ELSE n

\* n / d rounded to the nearest integer, halves to the even neighbour (numpy's
\* rint, which Series.round applies after scaling).  n >= 0, d > 0.
RoundHalfEven(n, d) ==
    LET q == n \div d
        r == n % d
    IN  IF 2 * r < d THEN q
        ELSE IF 2 * r > d THEN q + 1
        ELSE IF q % 2 = 0 THEN q ELSE q + 1

(***************************************************************************)
(* Numeric columns.                                                        *)
(***************************************************************************)
\* 1 tsubo = 3.305785 m2 = TsuboSqmNum / TsuboSqmDen m2 (661157 / 200000).
TsuboSqmNum == 661157
TsuboSqmDen == 200000

\* Series.round(2) of an area in 0.001 tsubo.
round2(a) == IF IsNum(a) THEN Num(10 * RoundHalfEven(a.v, 10)) ELSE a

\* (sqm / 3.305785).round(2), in 0.001 tsubo.  100 * s / 3.305785 is
\* s * 20000000 / 661157 = 30 * s + s * 165290 / 661157.
sqm_to_tsubo(s) ==
    IF IsNum(s)
    THEN LET scale == 100 * TsuboSqmDen
             whole == scale \div TsuboSqmNum
             rest == scale % TsuboSqmNum
         IN  Num(10 * (whole * s.v + RoundHalfEven(rest * s.v, TsuboSqmNum)))
    ELSE s

\* (df[price] / df[area]).round(1): float division, so x / 0 is inf (0 / 0 and
\* anything with NaN is NaN); in 0.1 man-yen per tsubo.  Prices are >= 0.
unit_price(price, area) ==
    IF price.k = "nan" \/ area.k = "nan" THEN NaN
    ELSE IF area.v = 0 THEN (IF price.v = 0 THEN NaN ELSE Inf)
    ELSE Num(RoundHalfEven(price.v * 10000, area.v))

\* haversine(lat1, lon1, lat2, lon2) on one meridian, in metres; NaN in, NaN out.
haversine(c, p) == IF IsNum(c) /\ IsNum(p) THEN Num(Abs(p.v - c.v)) ELSE NaN

\* Series.round(2) of a distance in km: to the nearest 10 m.
round_km2(d) == IF IsNum(d) THEN Num(10 * RoundHalfEven(d.v, 10)) ELSE d

\* Comparisons of a float column with a number: NaN compares False.
Ge(x, n) == x.k = "inf" \/ (IsNum(x) /\ x.v >= n)
Gt(x, n) == x.k = "inf" \/ (IsNum(x) /\ x.v > n)
Le(x, n) == IsNum(x) /\ x.v <= n

(***************************************************************************)
(* The CSV files of the model.                                             *)
(***************************************************************************)
L(tsubo, sqm, price, pos) == [tsubo |-> tsubo, sqm |-> sqm, price |-> price, pos |-> pos]

\* The listings a file's rows are drawn from, in file order: the area in the
\* tsubo column and in the m2 column, the price, the position.
Listings == <<
    L(Num(50000),  Num(165),  Num(1000),   Num(1500)),
    L(Num(100000), Num(331),  Num(2000),   Num(3000)),
    L(Num(600000), Num(1984), Num(3000),   Num(1000)),
    L(Num(80000),  Num(265),  Comma(1600), Num(500)),
    L(Num(70004),  Num(232),  Num(1005),   Num(1200)),
    L(NaN,         NaN,       Num(500),    Num(800)),
    L(Text,        Text,      Num(500),    Num(800)),
    L(Num(90000),  Num(298),  Num(920),    NaN),
    L(Num(90000),  Num(298),  Num(920),    Text),
    L(Num(0),      Num(0),    Num(1000),   Num(700)),
    L(Num(100000), Num(331),  NaN,         Num(600)) >>

RowsOf(S) ==
    LET f[i \in 0..Len(Listings)] ==
            IF i = 0 THEN <<>>
            ELSE IF i \in S THEN Append(f[i - 1], Listings[i]) ELSE f[i - 1]
    IN  f[Len(Listings)]

RowSets == {RowsOf(S) : S \in {T \in SUBSET (1..Len(Listings)) : Cardinality(T) <= MaxRows}}

\* A header: which of the columns the apps look for the file has.  area is
\* "tsubo" (a column the app takes as the tsubo area), "sqm" (one it takes as
\* the m2 area), "other" (an area column without a unit in its name, such as
\* "面積") or "none".
H(addr, coords, price, area) == [addr |-> addr, coords |-> coords, price |-> price, area |-> area]

File(exists, enc, header, rows) == [exists |-> exists, enc |-> enc, header |-> header, rows |-> rows]

GoodFiles ==
    {File(TRUE, "utf-8", H(TRUE, TRUE, TRUE, a), r) : a \in {"tsubo", "sqm"}, r \in RowSets}

OneRow == RowsOf({3})

SpecialFiles ==
    { File(FALSE, "utf-8", H(TRUE, TRUE, TRUE, "tsubo"), OneRow),
      File(TRUE, "other", H(TRUE, TRUE, TRUE, "tsubo"), OneRow),
      File(TRUE, "utf-8-sig", H(TRUE, TRUE, TRUE, "tsubo"), OneRow),
      File(TRUE, "cp932", H(TRUE, TRUE, TRUE, "tsubo"), OneRow),
      File(TRUE, "utf-8", H(TRUE, TRUE, TRUE, "other"), OneRow),
      File(TRUE, "utf-8", H(TRUE, TRUE, TRUE, "none"), OneRow),
      File(TRUE, "utf-8", H(TRUE, TRUE, FALSE, "tsubo"), OneRow),
      File(TRUE, "utf-8", H(TRUE, TRUE, FALSE, "none"), OneRow),
      File(TRUE, "utf-8", H(TRUE, FALSE, TRUE, "tsubo"), OneRow),
      File(TRUE, "utf-8", H(FALSE, TRUE, FALSE, "sqm"), OneRow) }

Files == GoodFiles \cup SpecialFiles

\* The encodings the loaders try, in order.
Encodings == <<"utf-8-sig", "utf-8", "cp932">>

\* pd.read_csv(path, encoding=enc) on a file written in fenc: UnicodeDecodeError
\* unless enc reads it.  utf-8-sig also reads UTF-8 without a byte-order mark;
\* "other" is an encoding none of the three reads (EUC-JP text, say).
Decodes(enc, fenc) ==
    \/ enc = fenc
    \/ enc \in {"utf-8-sig", "utf-8"} /\ fenc \in {"utf-8-sig", "utf-8"}

Col(rows, c) == [i \in 1..Len(rows) |-> rows[i][c]]

(***************************************************************************)
(* Geocoding.                                                              *)
(***************************************************************************)
Addresses == {"a1", "a2"}

\* The point the geocoding API knows for an address.
Location(addr) == IF addr = "a1" THEN Num(0) ELSE Num(1000)

\* What requests.get(url, timeout=5).json() does on one call:
\*   "raises"    the request times out or fails, or the body is no JSON
\*   "not_ok"    a reply whose status is not "OK" (ZERO_RESULTS, REQUEST_DENIED)
\*   "ok_empty"  status "OK" but no results[0].geometry.location in it
\*   "ok"        status "OK" with the location
Replies == {"raises", "not_ok", "ok_empty", "ok"}

geocode_unchecked(key, addr, reply) ==
    IF ~key THEN None
    ELSE IF reply = "raises" THEN None
    ELSE Location(addr)

\* geocode / geocode_address: (None, None) without a key, on any exception and
\* on a reply that is not OK; the location otherwise.
geocode(key, addr, reply) ==
    IF ~key THEN None
    ELSE IF reply = "raises" THEN None
    ELSE IF reply = "ok" THEN Location(addr)
    ELSE None

(***************************************************************************)
(* Sorting: DataFrame.sort_values(col, ascending=False).                   *)
(***************************************************************************)
Reverse(s) == [i \in 1..Len(s) |-> s[Len(s) + 1 - i]]

Perms(n) == {p \in [1..n -> 1..n] : \A i, j \in 1..n : i # j => p[i] # p[j]}

SortKey(u) == IF u.k = "inf" THEN 1073741824 ELSE u.v

\* ndarray.argsort(kind="quicksort"), the default kind of sort_values: some
\* permutation that sorts the keys ascending.  quicksort is not a stable sort, so
\* equal keys come out in an order the numpy build decides.
argsort(keys) ==
    {p \in Perms(Len(keys)) :
        \A i, j \in 1..Len(keys) : i < j => SortKey(keys[p[i]]) <= SortKey(keys[p[j]])}

Positions(rows, nan) ==
    SelectSeq([i \in 1..Len(rows) |-> i], LAMBDA i : (rows[i].unit.k = "nan") = nan)

sort_values_ascending(rows) ==
    LET non_nan_idx == Positions(rows, FALSE)
        nan_idx == Positions(rows, TRUE)
    IN  { [i \in 1..Len(rows) |-> rows[(([j \in 1..Len(non_nan_idx) |-> non_nan_idx[p[j]]]) \o nan_idx)[i]]] :
            p \in argsort([j \in 1..Len(non_nan_idx) |-> rows[non_nan_idx[j]].unit]) }

\* pandas nargsort with ascending=False, na_position="last": the rows without a
\* unit price keep their order and go last; the others are reversed, argsorted
\* ascending and reversed again.  The set of frames the sort may return.
sort_values(rows) ==
    LET non_nan_idx == Reverse(Positions(rows, FALSE))
        nan_idx == Positions(rows, TRUE)
        n == Len(non_nan_idx)
    IN  { [i \in 1..Len(rows) |-> rows[(Reverse([j \in 1..n |-> non_nan_idx[p[j]]]) \o nan_idx)[i]]] :
            p \in argsort([j \in 1..n |-> rows[non_nan_idx[j]].unit]) }

(***************************************************************************)
(* What a run of either script leaves behind.                              *)
(***************************************************************************)
\* Positions of the radius slider (0.5 to 5.0 km), in metres.
Radii == {1000, 2000}

\* Positions of the area slider (0 to 500 tsubo in steps of 10).
AreaRanges == {<<0, 500>>, <<0, 400>>, <<100, 500>>}

Sliders == {[radius |-> r, lo |-> a[1], hi |-> a[2]] : r \in Radii, a \in AreaRanges}

Msg(text, names) == [text |-> text, names |-> names]
NoMsg == Msg("", {})

Unset == [k |-> "unset", v |-> 0]

\* A run that has shown nothing yet, in a session whose state is (sel, cache).
Blank(sel, cache) ==
    [status |-> "init", msg |-> NoMsg, address |-> "", api_reply |-> "none", center |-> None,
     radius |-> 0, tsubo_min |-> 0, tsubo_max |-> 0, df |-> <<>>, df_flt |-> <<>>,
     flt |-> <<>>, table_df |-> <<>>, edited |-> {}, selected_row_index |-> sel,
     geocache |-> cache, shown |-> FALSE, pins |-> {}]

\* The run ends here: st.stop() ("stopped") or an uncaught exception ("crashed").
Halt(run, st, m) == [run EXCEPT !.status = st, !.msg = m]

\* A frame row: its index label, the file row it comes from, the area in tsubo,
\* the price, the unit price and the coordinate cell.
Row(label, row, tsubo, price, pos) ==
    [label |-> label, row |-> row, tsubo |-> tsubo, price |-> price,
     unit |-> unit_price(price, tsubo), pos |-> pos]

WithDistance(frame, c) ==
    [i \in 1..Len(frame) |->
        [label |-> frame[i].label, row |-> frame[i].row, tsubo |-> frame[i].tsubo,
         price |-> frame[i].price, unit |-> frame[i].unit, pos |-> frame[i].pos,
         dist |-> haversine(c, frame[i].pos)]]

Labels(frame) == {frame[i].label : i \in 1..Len(frame)}

\* The requests a call of geocode can make and what each returns: none without a key.
GeoCalls(key, addr) ==
    IF ~key THEN {[reply |-> "none", c |-> geocode(key, addr, "none")]}
    ELSE {[reply |-> reply, c |-> geocode(key, addr, reply)] : reply \in Replies}

(***************************************************************************)
(* The desktop app, src/app.py.                                            *)
(***************************************************************************)
\* load_csv: the first of the three encodings that decodes the file; when none
\* does, the fallback calls pd.read_csv(..., errors="replace"), and read_csv has
\* no parameter named errors: TypeError.
load_csv(f) ==
    IF \E i \in 1..Len(Encodings) : Decodes(Encodings[i], f.enc) THEN "ok" ELSE "TypeError"

\* REQUIRED: the price, lat, lon and address columns.
REQUIRED == {"price", "lat", "lon", "address"}

\* The required columns a header has once the aliases are renamed.
Columns(h) ==
    (IF h.price THEN {"price"} ELSE {}) \cup (IF h.coords THEN {"lat", "lon"} ELSE {})
        \cup (IF h.addr THEN {"address"} ELSE {})

\* standardize_columns: for every required column the file lacks, a selectbox
\* over the columns that are not required ones; with options it always has a
\* selection, and that column is renamed to the missing one.  The only column of
\* a header here that is not a required one is the area column, so it resolves
\* one missing column (whichever the set iteration reaches first) and is then no
\* area column any more.  The results: the columns still lacking, the area column left.
standardize_columns(h) ==
    LET missing == REQUIRED \ Columns(h)
    IN  IF missing = {} THEN {[lack |-> {}, area |-> h.area]}
        ELSE IF h.area = "none" THEN {[lack |-> missing, area |-> "none"]}
        ELSE {[lack |-> missing \ {m}, area |-> "none"] : m \in missing}

\* Line 144: the columns whose name has 面積, ㎡ or 坪 in it, once
\* standardize_columns is through: an area column it could not name.
area_candidates(h) == {std.area : std \in standardize_columns(h)} \cap {"other"}

\* Lines 153-159 raise TypeError when the file's tsubo column is an object
\* column: it is never passed through to_numeric, round(2) leaves it as it is or
\* raises, and price / area then divides a float by a str.
desktop_numeric_raises(f) == f.header.area = "tsubo" /\ IsObjectColumn(Col(f.rows, "tsubo"))

\* Lines 154-158: the tsubo column of the file, or the m2 column through
\* to_numeric and divided by 3.305785; rounded to two decimals.
desktop_area(f, row) ==
    IF f.header.area = "tsubo" THEN round2(row.tsubo) ELSE sqm_to_tsubo(to_numeric(row.sqm))

\* df after lines 153-159.
desktop_df(f) ==
    [i \in 1..Len(f.rows) |->
        Row(i - 1, i, desktop_area(f, f.rows[i]), to_numeric_no_commas(f.rows[i].price),
            f.rows[i].pos)]

desktop_cond_no_radius(r, sl) ==
    /\ Ge(r.tsubo, sl.lo * 1000)
    /\ Gt(r.tsubo, 30 * 1000)
    /\ (sl.hi < 500 => Le(r.tsubo, sl.hi * 1000))

\* cond of lines 181-187.
desktop_cond(r, sl) ==
    /\ Le(r.dist, sl.radius)
    /\ Ge(r.tsubo, sl.lo * 1000)
    /\ Gt(r.tsubo, 30 * 1000)
    /\ (sl.hi < 500 => Le(r.tsubo, sl.hi * 1000))

\* Lines 161-233, once df is complete.
desktop_search(f, key, addr, run) ==
    IF addr = "" THEN {Halt(run, "stopped", NoMsg)}
    ELSE UNION {
        LET run2 == [run EXCEPT !.address = addr, !.api_reply = call.reply]
        IN  IF call.c = None THEN {Halt(run2, "stopped", Msg("address_not_found", {}))}
            ELSE IF RaisesOnArithmetic(Col(f.rows, "pos"))
                THEN {Halt([run2 EXCEPT !.center = call.c], "crashed", Msg("TypeError", {"coordinates"}))}
            ELSE UNION {
                LET kept == SelectSeq(WithDistance(run.df, call.c),
                                      LAMBDA r : desktop_cond(r, sl))
                IN  { [run2 EXCEPT !.status = "done",
                                   !.msg = IF sorted = <<>> THEN Msg("no_match", {}) ELSE NoMsg,
                                   !.center = call.c, !.radius = sl.radius,
                                   !.tsubo_min = sl.lo, !.tsubo_max = sl.hi,
                                   !.df_flt = sorted, !.shown = TRUE,
                                   !.pins = {[label |-> sorted[i].label, color |-> "blue"]
                                                : i \in 1..Len(sorted)}]
                      : sorted \in sort_values(kept) }
                : sl \in Sliders }
        : call \in GeoCalls(key, addr) }

\* One run of main() with this address typed: the outcomes it can have, over
\* the replies of the geocoding API and the slider positions.
desktop_main(f, key, addr, run) ==
    IF ~f.exists THEN {Halt(run, "stopped", Msg("file_not_found", {}))}
    ELSE IF load_csv(f) # "ok" THEN {Halt(run, "crashed", Msg(load_csv(f), {"read_csv"}))}
    ELSE UNION {
        IF std.lack # {} THEN {Halt(run, "stopped", Msg("missing_columns", std.lack))}
        ELSE IF std.area \notin {"tsubo", "sqm"} THEN {Halt(run, "stopped", Msg("area_prompt", {}))}
        ELSE IF desktop_numeric_raises(f) THEN {Halt(run, "crashed", Msg("TypeError", {"area"}))}
        ELSE desktop_search(f, key, addr, [run EXCEPT !.df = desktop_df(f)])
        : std \in standardize_columns(f.header) }

(***************************************************************************)
(* The mobile app, src/app.mobile.py.                                      *)
(***************************************************************************)
Loaded(st, m, frame) == [status |-> st, msg |-> m, df |-> frame]

\* Lines 105-116: the tsubo column of the file or, without one, the m2 column
\* divided by 3.305785 and rounded; then to_numeric without the commas.
mobile_area(f, row) ==
    to_numeric_no_commas(IF f.header.area = "tsubo" THEN row.tsubo ELSE sqm_to_tsubo(row.sqm))

\* load_data.  read_csv of a missing file raises FileNotFoundError, which the
\* loop does not catch; line 108 divides the m2 column before any to_numeric, a
\* TypeError on an object column; without either price column line 120 raises KeyError.
load_data(f) ==
    IF ~f.exists THEN Loaded("crashed", Msg("FileNotFoundError", {}), <<>>)
    ELSE IF ~\E i \in 1..Len(Encodings) : Decodes(Encodings[i], f.enc)
        THEN Loaded("stopped", Msg("csv_decode_failed", {}), <<>>)
    ELSE IF ~f.header.coords
        THEN Loaded("stopped", Msg("missing_columns", {"latitude", "longitude"}), <<>>)
    ELSE IF f.header.area \notin {"tsubo", "sqm"}
        THEN Loaded("stopped", Msg("missing_columns", {"area"}), <<>>)
    ELSE IF f.header.area = "sqm" /\ RaisesOnArithmetic(Col(f.rows, "sqm"))
        THEN Loaded("crashed", Msg("TypeError", {"area"}), <<>>)
    ELSE IF ~f.header.price THEN Loaded("crashed", Msg("KeyError", {"price"}), <<>>)
    ELSE Loaded("ok", NoMsg,
            [i \in 1..Len(f.rows) |->
                Row(i - 1, i, mobile_area(f, f.rows[i]),
                    to_numeric_no_commas(f.rows[i].price), f.rows[i].pos)])

\* reset_index(drop=True)
reset_index(frame) == [i \in 1..Len(frame) |-> [frame[i] EXCEPT !.label = i - 1]]

mobile_base_all(frame) == reset_index(frame)

\* Line 144: _df = _df[area > 60].reset_index(drop=True).
mobile_base(frame) == reset_index(SelectSeq(frame, LAMBDA r : Gt(r.tsubo, 60 * 1000)))

\* cond of lines 180-182; MAX_TSUBO_UI is 500.
mobile_cond(r, sl) ==
    /\ Le(r.dist, sl.radius)
    /\ Ge(r.tsubo, sl.lo * 1000)
    /\ (sl.hi < 500 => Le(r.tsubo, sl.hi * 1000))

\* Line 186: flt["距離(km)"].round(2)
RoundDistance(frame) == [i \in 1..Len(frame) |-> [frame[i] EXCEPT !.dist = round_km2(@)]]

\* The row flt.at[sel, "選択"] = True creates when flt has no row labelled sel:
\* setting with a missing label enlarges the frame, NaN in every other column.
NewRow(sel) ==
    [label |-> sel.v, row |-> 0, tsubo |-> NaN, price |-> NaN, unit |-> NaN, pos |-> NaN,
     dist |-> NaN]

\* Lines 207-212: the remembered selection is ticked in flt when
\* 0 <= selected_row_index < len(flt).  flt keeps the labels of _df (sort_values
\* and boolean indexing keep the index), so the label may be one flt lacks.
reflect_selection(frame, sel) ==
    IF sel # None /\ 0 <= sel.v /\ sel.v < Len(frame) /\ sel.v \notin Labels(frame)
    THEN Append(frame, NewRow(sel))
    ELSE frame

\* true_rows: the ticked labels in display order.
true_rows(table, ticked) ==
    LET labels == [i \in 1..Len(table) |-> table[i].label]
    IN  SelectSeq(labels, LAMBDA x : x \in ticked)

normalize_last(rows) == IF rows = <<>> THEN None ELSE Num(rows[Len(rows)])

\* Lines 232-241: the first ticked row, or None.
normalize(rows) == IF rows = <<>> THEN None ELSE Num(rows[1])

\* Line 286.
pin_color(idx, selected_idx) ==
    IF selected_idx # None /\ idx = selected_idx.v THEN "green" ELSE "blue"

\* geocode_address under st.cache_data: the first call for an address decides
\* what every later call returns, (None, None) included.
geocode_address(key, cache, addr) ==
    IF cache[addr] # Unset THEN {[reply |-> "none", c |-> cache[addr]]} ELSE GeoCalls(key, addr)

\* folium.Marker at a NaN location: folium's validate_location raises ValueError
\* ("Location values cannot contain NaNs"); releases without that check add the
\* marker.  float(nan) does not raise, so the guard of lines 289-292 lets it through.
MarkerOutcomes(table) ==
    IF \E i \in 1..Len(table) : table[i].pos.k = "nan" THEN {"ValueError", "ok"} ELSE {"ok"}

\* Lines 194-310, once flt is filtered, sorted and rounded: the table, the
\* ticks data_editor returns (the user's: any set of rows of the table), the
\* normalised selection and the map.
mobile_display(run, result) ==
    LET table == reflect_selection(result, run.selected_row_index)
    IN  { LET sel == normalize(true_rows(table, ticked))
              run2 == [run EXCEPT !.flt = result, !.table_df = table, !.edited = ticked,
                                  !.selected_row_index = sel, !.shown = TRUE]
          IN  IF how = "ok"
              THEN [run2 EXCEPT !.status = "done",
                                !.pins = {[label |-> table[i].label,
                                           color |-> pin_color(table[i].label, sel)]
                                             : i \in 1..Len(table)}]
              ELSE Halt(run2, "crashed", Msg(how, {}))
          : ticked \in SUBSET Labels(table), how \in MarkerOutcomes(table) }

\* One run of the script with this address typed, from the session state in
\* run: the outcomes it can have, over the replies of the geocoding API, the
\* slider positions and the ticks.
mobile_main(f, key, addr, run) ==
    LET loaded == load_data(f)
        base == mobile_base(loaded.df)
    IN  IF loaded.status # "ok" THEN {Halt(run, loaded.status, loaded.msg)}
        ELSE IF addr = "" THEN {Halt([run EXCEPT !.df = loaded.df], "stopped", NoMsg)}
        ELSE UNION {
            LET run2 == [run EXCEPT !.df = loaded.df, !.address = addr,
                                    !.api_reply = call.reply, !.geocache[addr] = call.c]
            IN  IF call.c = None THEN {Halt(run2, "stopped", Msg("address_not_found", {}))}
                ELSE IF IsObjectColumn(Col(f.rows, "pos"))
                            /\ \E i \in 1..Len(base) : base[i].pos.k # "nan"
                    THEN {Halt([run2 EXCEPT !.center = call.c], "crashed", Msg("TypeError", {"coordinates"}))}
                ELSE UNION {
                    LET kept == SelectSeq(WithDistance(base, call.c),
                                          LAMBDA r : mobile_cond(r, sl))
                    IN  UNION { mobile_display([run2 EXCEPT !.center = call.c,
                                                   !.radius = sl.radius, !.tsubo_min = sl.lo,
                                                   !.tsubo_max = sl.hi],
                                               RoundDistance(sorted))
                                : sorted \in sort_values(kept) }
                    : sl \in Sliders }
            : call \in geocode_address(key, run.geocache, addr) }

(***************************************************************************)
(* The session.                                                            *)
(***************************************************************************)
Init ==
    /\ app \in {"desktop", "mobile"}
    /\ file \in Files
    /\ GOOGLE_API_KEY \in BOOLEAN
    /\ status = "init"
    /\ msg = NoMsg
    /\ last_input = "none"
    /\ address = ""
    /\ api_reply = "none"
    /\ center = None
    /\ radius = 0
    /\ tsubo_min = 0
    /\ tsubo_max = 0
    /\ df = <<>>
    /\ df_flt = <<>>
    /\ shown = FALSE
    /\ pins = {}
    /\ flt = <<>>
    /\ table_df = <<>>
    /\ edited = {}
    /\ selected_row_index = None
    /\ geocache = [a \in Addresses |-> Unset]

\* The script starts over: what it leaves behind replaces the last run's, and
\* st.session_state and the st.cache_data memo are what the run made of them.
Rerun(o, input) ==
    /\ status' = o.status
    /\ msg' = o.msg
    /\ address' = o.address
    /\ api_reply' = o.api_reply
    /\ center' = o.center
    /\ radius' = o.radius
    /\ tsubo_min' = o.tsubo_min
    /\ tsubo_max' = o.tsubo_max
    /\ df' = o.df
    /\ df_flt' = o.df_flt
    /\ flt' = o.flt
    /\ table_df' = o.table_df
    /\ edited' = o.edited
    /\ selected_row_index' = o.selected_row_index
    /\ geocache' = o.geocache
    /\ shown' = o.shown
    /\ pins' = o.pins
    /\ last_input' = input
    /\ UNCHANGED <<app, file, GOOGLE_API_KEY>>

\* The user types an address (or none) or moves a slider: main() runs.
DesktopRun ==
    /\ app = "desktop"
    /\ \E addr \in Addresses \cup {""} :
         \E o \in desktop_main(file, GOOGLE_API_KEY, addr, Blank(selected_row_index, geocache)) :
            Rerun(o, "run")

\* At the area prompt (lines 142-150) the user picks one of the candidate
\* columns and a unit and presses the confirm button.  The rename is made on the
\* local df and then st.rerun() starts main() over: load_csv returns the file's
\* columns again.  Nothing of the choice is kept, so the rerun is a run like any
\* other (the address input was never reached, so none is typed).
DesktopConfirm ==
    /\ app = "desktop"
    /\ status = "stopped" /\ msg.text = "area_prompt"
    /\ \E col_sel \in area_candidates(file.header), unit \in {"sqm", "tsubo"} :
         \E o \in desktop_main(file, GOOGLE_API_KEY, "", Blank(selected_row_index, geocache)) :
            Rerun(o, "confirm")

\* The user types an address, moves a slider or ticks a row: the script runs.
MobileRun ==
    /\ app = "mobile"
    /\ \E addr \in Addresses \cup {""} :
         \E o \in mobile_main(file, GOOGLE_API_KEY, addr, Blank(selected_row_index, geocache)) :
            Rerun(o, "run")

Next == DesktopRun \/ DesktopConfirm \/ MobileRun

Spec == Init /\ [][Next]_vars

(***************************************************************************)
(* Properties.                                                             *)
(***************************************************************************)
\* The filtered result of the app the session runs.
Result == IF app = "desktop" THEN df_flt ELSE flt

ResultRows == {Result[i].row : i \in 1..Len(Result)}

\* The distance of a loaded row from the center is defined and within the radius.
WithinRadius(r) == IsNum(r.pos) /\ IsNum(center) /\ Abs(r.pos.v - center.v) <= radius

\* The area of a loaded row is a number within the slider's range, 500 standing
\* for no upper bound.
WithinArea(r) ==
    /\ IsNum(r.tsubo)
    /\ r.tsubo.v >= tsubo_min * 1000
    /\ (tsubo_max < 500 => r.tsubo.v <= tsubo_max * 1000)

\* The area a listing must exceed whatever the sliders say: 30 tsubo in the
\* desktop app (line 184), 60 tsubo in the mobile app (line 144).
AreaFloor == IF app = "desktop" THEN 30 * 1000 ELSE 60 * 1000

\* C1: every listing of the filtered result lies within the radius (its true
\* distance and the distance attached to it) and has an area of at least min
\* and, when max is below 500, of at most max; with max at 500 a listing is not
\* left out for being large.
C1_FilterSound ==
    shown =>
        /\ \A i \in 1..Len(Result) :
             /\ WithinRadius(Result[i])
             /\ IsNum(Result[i].dist) /\ Result[i].dist.v <= radius
             /\ WithinArea(Result[i])
        /\ tsubo_max = 500 =>
             \A j \in 1..Len(df) :
                WithinRadius(df[j]) /\ WithinArea(df[j]) /\ df[j].tsubo.v > 500 * 1000
                    => df[j].row \in ResultRows

\* C1's case: a result under the sentinel maximum holding a listing above 500 tsubo.
C1_Witness ==
    shown /\ tsubo_max = 500 /\ \E i \in 1..Len(Result) : Result[i].tsubo.v > 500 * 1000

\* The listing of the spec's example: 1.5 km away, 50 tsubo, 1000 man-yen.
IsExample(r) ==
    /\ IsNum(r.pos) /\ Abs(r.pos.v - center.v) = 1500
    /\ r.tsubo = Num(50 * 1000)
    /\ r.price = Num(1000)

ExampleSliders == radius = 2000 /\ tsubo_min = 0 /\ tsubo_max = 500

\* C2 as stated: the result is exactly the loaded listings within the radius
\* and the area range, no other predicate removing one; with radius 2.0 km and
\* range (0, 500) the example listing is returned with unit price 20.0 and a
\* listing 3.0 km away is not.
C2_Original ==
    shown =>
        /\ ResultRows = {df[j].row : j \in {k \in 1..Len(df) : WithinRadius(df[k]) /\ WithinArea(df[k])}}
        /\ ExampleSliders =>
             \A j \in 1..Len(df) :
                /\ IsExample(df[j]) =>
                     \E i \in 1..Len(Result) :
                        Result[i].row = df[j].row /\ Result[i].unit = Num(200)
                /\ (IsNum(df[j].pos) /\ Abs(df[j].pos.v - center.v) = 3000)
                     => df[j].row \notin ResultRows

\* C2 amended: the result is exactly the loaded listings within the radius and
\* the area range whose area exceeds 30 tsubo (desktop) or 60 tsubo (mobile),
\* each once; with radius 2.0 km and range (0, 500) the example listing is
\* returned with unit price 20.0 by the desktop app and left out by the mobile
\* app, and a listing 3.0 km away is in neither result.
C2_FilterExact ==
    shown =>
        /\ ResultRows = {df[j].row : j \in {k \in 1..Len(df) :
                            WithinRadius(df[k]) /\ WithinArea(df[k]) /\ df[k].tsubo.v > AreaFloor}}
        /\ Cardinality(ResultRows) = Len(Result)
        /\ ExampleSliders =>
             \A j \in 1..Len(df) :
                /\ IsExample(df[j]) /\ app = "desktop" =>
                     \E i \in 1..Len(Result) :
                        Result[i].row = df[j].row /\ Result[i].unit = Num(200)
                /\ IsExample(df[j]) /\ app = "mobile" => df[j].row \notin ResultRows
                /\ (IsNum(df[j].pos) /\ Abs(df[j].pos.v - center.v) = 3000)
                     => df[j].row \notin ResultRows

\* C2's case: the desktop app over the example listing and one 3.0 km away,
\* returning the first alone.
C2_Witness ==
    /\ app = "desktop" /\ shown /\ ExampleSliders
    /\ Len(Result) = 1 /\ IsExample(Result[1]) /\ Result[1].unit = Num(200)
    /\ \E j \in 1..Len(df) : IsNum(df[j].pos) /\ Abs(df[j].pos.v - center.v) = 3000

\* C3 as stated: adjacent rows of the result have unit_price(i) >=
\* unit_price(i+1), and rows of equal unit price keep the order of the file.
C3_Original ==
    shown =>
        \A i \in 1..(Len(Result) - 1) :
            /\ IsNum(Result[i].unit) /\ IsNum(Result[i + 1].unit)
            /\ Result[i].unit.v >= Result[i + 1].unit.v
            /\ Result[i].unit.v = Result[i + 1].unit.v => Result[i].row < Result[i + 1].row

\* C3 amended: the rows of the result that have a unit price come first, in
\* descending order of it; the rows without one (no price) follow.  Nothing is
\* said of the order of rows with equal unit price.
C3_SortedDescending ==
    shown =>
        \A i, j \in 1..Len(Result) :
            i < j /\ IsNum(Result[j].unit)
                => IsNum(Result[i].unit) /\ Result[i].unit.v >= Result[j].unit.v

\* C3's case: a result of two rows of different unit price that the file holds
\* in ascending order.
C3_Witness ==
    /\ shown /\ Len(Result) = 2
    /\ IsNum(Result[1].unit) /\ IsNum(Result[2].unit)
    /\ Result[1].unit.v > Result[2].unit.v
    /\ Result[1].row > Result[2].row

\* The cell of a file row the app reads the area from.
AreaCell(l) == IF file.header.area = "sqm" THEN l.sqm ELSE l.tsubo

\* C4 as stated: a listing whose area or coordinate cell is empty or no number
\* is never in the result, and no run dies of one.
C4_Original ==
    /\ shown =>
         \A i \in 1..Len(Result) :
            /\ AreaCell(file.rows[Result[i].row]).k \notin {"nan", "text"}
            /\ file.rows[Result[i].row].pos.k \notin {"nan", "text"}
    /\ ~(status = "crashed" /\ msg.text = "TypeError" /\ msg.names \subseteq {"area", "coordinates"})

\* C5 as stated: the unit price of a loaded listing is price / area to the
\* nearest 0.1 when the area is positive, and null when the area is zero or missing.
C5_Original ==
    \A i \in 1..Len(df) :
        /\ IsNum(df[i].tsubo) /\ df[i].tsubo.v > 0 /\ IsNum(df[i].price)
             => /\ IsNum(df[i].unit)
                /\ 2 * Abs(df[i].unit.v * df[i].tsubo.v - df[i].price.v * 10000) <= df[i].tsubo.v
        /\ (df[i].tsubo = NaN \/ df[i].tsubo = Num(0)) => df[i].unit = NaN

GeoFailed == status = "stopped" /\ msg.text = "address_not_found"

\* C6: a run whose geocoding request raised, was answered with a status other
\* than OK or with an OK reply without a result, or that had no API key to ask
\* with, stops at the not-found message: it is not a crash, no center is set,
\* no table and no pin is shown.  And the run after such a stop, given another
\* address and an OK reply for it, gets past the geocoding step.
C6_GeocodeDegrades ==
    /\ [](api_reply \in {"raises", "not_ok", "ok_empty"} \/ (address # "" /\ ~GOOGLE_API_KEY)
            => GeoFailed /\ center = None /\ ~shown /\ pins = {} /\ Result = <<>>)
    /\ [][GeoFailed /\ address' \notin {"", address} /\ api_reply' = "ok"
            => center' = Location(address') /\ status' # "stopped"]_vars

\* C6's case: a typed address whose request raises.
C6_Witness == address # "" /\ api_reply = "raises" /\ GeoFailed

\* The file is missing, in none of the three encodings, or lacks a required
\* column that nothing resolves.
FatalFile ==
    \/ ~file.exists
    \/ file.enc \notin {"utf-8-sig", "utf-8", "cp932"}
    \/ app = "mobile" /\ (~file.header.coords \/ ~file.header.price
                            \/ file.header.area \notin {"tsubo", "sqm"})
    \/ app = "desktop" /\ \A std \in standardize_columns(file.header) : std.lack # {}

\* C7 as stated: over such a file every run halts with an error message naming
\* what is missing; it shows no table and no map and raises nothing.
C7_Original ==
    FatalFile /\ status # "init" =>
        /\ status = "stopped"
        /\ msg.text \in {"file_not_found", "csv_decode_failed", "missing_columns"}
        /\ ~shown /\ pins = {}

\* C8 as stated: once the user has picked an area column and a unit and pressed
\* the confirm button, the run that follows is past the area prompt.
C8_Original == last_input = "confirm" => ~(status = "stopped" /\ msg.text = "area_prompt")

\* C9 as stated: the rows the mobile app displays are the filtered and sorted
\* listings, a function of the dataset and the filter parameters; the
\* remembered selection adds, removes and reorders none.
C9_Original == app = "mobile" /\ shown => table_df = flt

\* C10: after the normalisation selected_row_index is None when no row is
\* ticked and the label of the first ticked row in display order otherwise; at
\* most one pin is green, and a green pin is that of a displayed row that is ticked.
C10_SingleSelection ==
    app = "mobile" /\ shown =>
        /\ edited = {} => selected_row_index = None
        /\ edited # {} =>
             \E i \in 1..Len(table_df) :
                /\ table_df[i].label \in edited
                /\ \A j \in 1..(i - 1) : table_df[j].label \notin edited
                /\ selected_row_index = Num(table_df[i].label)
        /\ Cardinality({p \in pins : p.color = "green"}) <= 1
        /\ \A p \in pins :
                p.color = "green" => p.label \in Labels(table_df) /\ p.label \in edited

\* C10's case: two rows ticked, one pin green.
C10_Witness ==
    /\ app = "mobile" /\ shown
    /\ Cardinality(edited) >= 2
    /\ \E p \in pins : p.color = "green"

====
